---------------------------- MODULE Spec2Model ----------------------------
(***************************************************************************)
(* A state-machine model of src/ecs.js: the ECS world registry, entities,  *)
(* the per-class presence index, the query cache with its two maintenance  *)
(* paths (incremental on attach, full rebuild on detach and on creation)   *)
(* and system registration / ticking, with two systems that change and     *)
(* query the world from their update.  A second ECS instance of the same   *)
(* program stands next to the first, because the presence index is a       *)
(* static property of the component class and not of the world.            *)
(*                                                                         *)
(* JavaScript objects are modelled by value except where identity is       *)
(* observable: the `entities` object of a Query lives in `heap`, because   *)
(* ECS.query hands that very object to the caller and Query.refresh        *)
(* replaces it by a new one.                                               *)
(*                                                                         *)
(* Class names are ordinary identifiers that are not property names of     *)
(* Object.prototype, so `name in obj` is membership in obj's own keys.     *)
(***************************************************************************)
EXTENDS Integers, Sequences, FiniteSets, TLC

VARIABLES
    components,     \* ECS.components: the names registered with the world
    classEntities,  \* per component class, its static `entities` object (ecs.js:34)
    entities,       \* ECS.entities in insertion order; the id of an entity is its index
    queries,        \* ECS.queries in insertion order (for-in order of string keys)
    heap,           \* the `entities` objects of the queries, by object identity
    held,           \* the object the caller got from its last ECS.query call ({} if none)
    heldKey,        \* the key of the logic list of that call
    systems,        \* ECS.systems in insertion order
    constructed,    \* per system class, how many instances were constructed
    hooks,          \* per system class, what each onRegistration call found
    updated,        \* the system classes whose update(delta) has run
    other           \* a second ECS instance: its component table and its entities

vars == <<components, classEntities, entities, queries, heap, held, heldKey,
          systems, constructed, hooks, updated, other>>

worldVars == <<components, classEntities, entities, queries, heap, held, heldKey>>
systemVars == <<systems, constructed, hooks, updated>>
otherVars == <<other>>

(* The world as one value, so that an API method is an operator from the    *)
(* world before the call to the world after it and the call's outcome.       *)
World ==
    [components |-> components, classEntities |-> classEntities,
     entities |-> entities, queries |-> queries, heap |-> heap,
     held |-> held, heldKey |-> heldKey]

-----------------------------------------------------------------------------
(* Bounds and input domains *)

MaxEntities == 2
MaxQueries == 2
MaxConstructed == 2
MaxOtherEntities == 1

ComponentClasses == {"A", "B"}
SystemClasses == {"S1", "S2"}
LogicLists == { <<>>, <<"A">>, <<"A", "A">>, <<"!A", "B">> }
LiveLogicLists == { <<"A">>, <<"!A", "B">> }
Deltas == {16, 33}

Undefined == "undefined"
NumObjects == MaxQueries + 2
ObjIds == 1..NumObjects

Range(s) == {s[i] : i \in DOMAIN s}

-----------------------------------------------------------------------------
(* Query keys: `logic in this.queries` converts the array to a string *)

RECURSIVE Join(_)
Join(logic) ==
    IF Len(logic) = 0 THEN ""
    ELSE IF Len(logic) = 1 THEN logic[1]
    ELSE logic[1] \o "," \o Join(Tail(logic))

ToKey(logic) == Join(logic)

QueryKeys(qs) == {qs[i].key : i \in DOMAIN qs}

QueryIndex(qs, key) == CHOOSE i \in DOMAIN qs : qs[i].key = key

-----------------------------------------------------------------------------
(* Query construction: resolving the logic tokens *)

(* Faulty variant: the prefix test of ecs.js:156-159 left out, the token is   *)
(* used as it is written. *)
StripNotKept(token) == token

StripNot(token) ==
    IF Len(token) > 0 /\ Head(token) = "!" THEN Tail(token) ELSE token

ComponentNames(logic) == [i \in DOMAIN logic |-> StripNot(logic[i])]

ResolveComponents(logic, comps) ==
    [i \in DOMAIN logic |->
        IF StripNot(logic[i]) \in comps THEN StripNot(logic[i]) ELSE Undefined]

-----------------------------------------------------------------------------
(* The heap of `entities` objects *)

Live(qs, h) == {qs[i].entities : i \in DOMAIN qs} \cup h

NewObject(live) == CHOOSE o \in ObjIds : o \notin live /\ \A p \in ObjIds \ live : o <= p

(* Garbage collection with compaction, run when an API call returns: the    *)
(* object of the i-th query moves to cell i, a held object that no query     *)
(* refers to any more moves to the next cell, every other cell is cleared.   *)
(* Object identities are not observable by the program, only aliasing is.    *)
HeldIsStale(qs, h) == h # {} /\ \A i \in DOMAIN qs : qs[i].entities \notin h

CollectQueries(qs) == [i \in DOMAIN qs |-> [qs[i] EXCEPT !.entities = i]]

CollectHeld(qs, h) ==
    IF h = {} THEN {}
    ELSE IF HeldIsStale(qs, h) THEN {Len(qs) + 1}
    ELSE {i \in DOMAIN qs : qs[i].entities \in h}

CollectHeap(hp, qs, h) ==
    [o \in ObjIds |->
        IF o \in DOMAIN qs THEN hp[qs[o].entities]
        ELSE IF o = Len(qs) + 1 /\ HeldIsStale(qs, h) THEN hp[CHOOSE x \in h : TRUE]
        ELSE {}]

-----------------------------------------------------------------------------
(* Query.refresh: the full rebuild *)

RefreshThrows(q, ents) ==
    Len(ents) > 0 /\ \E i \in DOMAIN q.components : q.components[i] = Undefined

MatchCount(q, id, ce) ==
    Cardinality({i \in DOMAIN q.components : id \in ce[q.components[i]]})

(* Faulty variant: the comparison of ecs.js:210 never holds for a query with  *)
(* no component. *)
RefreshMatchesSome(q, ents, ce) ==
    IF RefreshThrows(q, ents) THEN {}
    ELSE {id \in DOMAIN ents :
             Len(q.components) > 0 /\ MatchCount(q, id, ce) = Len(q.components)}

RefreshMatches(q, ents, ce) ==
    IF RefreshThrows(q, ents) THEN {}
    ELSE {id \in DOMAIN ents : MatchCount(q, id, ce) = Len(q.components)}

Refresh(q, ents, ce, hp, live) ==
    LET o == NewObject(live)
    IN  [query |-> [q EXCEPT !.entities = o],
         heap  |-> [hp EXCEPT ![o] = RefreshMatches(q, ents, ce)],
         threw |-> IF RefreshThrows(q, ents) THEN "TypeError" ELSE "none"]

-----------------------------------------------------------------------------
(* Query.componentAddedToEntity: the incremental path *)

CurMatchCount(q, entity) ==
    Cardinality({p \in entity.components : p \in Range(q.component_names)})

ComponentAddedToEntity(q, entity) == CurMatchCount(q, entity) = Len(q.components)

DispatchComponentAdded(qs, hp, entity, id) ==
    [o \in ObjIds |->
        IF \E i \in DOMAIN qs :
              qs[i].entities = o /\ ComponentAddedToEntity(qs[i], entity)
        THEN hp[o] \cup {id}
        ELSE hp[o]]

-----------------------------------------------------------------------------
(* The outcome of an API call.  w: the world it leaves; threw: the exception  *)
(* that left it ("none" if it returned); logged: whether it called            *)
(* console.error; events: how many component_added events it dispatched;      *)
(* listeners: how many listeners it subscribed; ret: what it returned.        *)

NoValue == "-"

Outcome(w, threw, logged, events, listeners, ret) ==
    [w |-> w, threw |-> threw, logged |-> logged, events |-> events,
     listeners |-> listeners, ret |-> ret]

(* The collector runs when the call is over. *)
Collected(w) ==
    [w EXCEPT !.queries = CollectQueries(w.queries),
              !.heap = CollectHeap(w.heap, w.queries, w.held),
              !.held = CollectHeld(w.queries, w.held)]

-----------------------------------------------------------------------------
(* Initial state: `new ECS()` *)

Init ==
    /\ components = {}
    /\ classEntities = [c \in ComponentClasses |-> {}]
    /\ entities = <<>>
    /\ queries = <<>>
    /\ heap = [o \in ObjIds |-> {}]
    /\ held = {}
    /\ heldKey = NoValue
    /\ systems = <<>>
    /\ constructed = [s \in SystemClasses |-> 0]
    /\ hooks = [s \in SystemClasses |-> <<>>]
    /\ updated = {}
    /\ other = [components |-> {}, entities |-> <<>>]

-----------------------------------------------------------------------------
(* ECS.registerComponent *)

(* Faulty variant: the duplicate check of ecs.js:28 never finds the name. *)
ComponentNeverFound(c, comps) == FALSE

ComponentAlreadyRegistered(c, comps) == c \in comps

RegisterComponentOp(w, c) ==
    IF ComponentAlreadyRegistered(c, w.components)
    THEN Outcome(w, "none", TRUE, 0, 0, "undefined")
    ELSE Outcome([w EXCEPT !.components = @ \cup {c},
                           !.classEntities[c] = {}],
                 "none", FALSE, 0, 0, "undefined")

-----------------------------------------------------------------------------
(* new Entity(ecs): Entity.constructor and ECS.addEntity *)

(* An entity: the component names that are properties of the entity itself, *)
(* the names that are keys of its `components` object, and per class the     *)
(* component instance it holds, told by the properties it was made from.     *)
EmptyEntity ==
    [root |-> {}, components |-> {}, instance |-> [c \in ComponentClasses |-> NoValue]]

NewEntityOp(w) ==
    Outcome([w EXCEPT !.entities = Append(@, EmptyEntity)],
            "none", FALSE, 0, 0, "object")

-----------------------------------------------------------------------------
(* Entity.addComponent *)

(* Faulty variant: the registration check of ecs.js:89 lets every class through. *)
ComponentAlwaysAccepted(c, comps) == TRUE

ComponentRegistered(c, comps) == c \in comps

(* new component_class(properties): Component.constructor defaults a missing *)
(* argument to {}. *)
NewComponent(properties) == IF properties = Undefined THEN "{}" ELSE properties

AttachInstance(entity, c, component) ==
    [root |-> entity.root \cup {c}, components |-> entity.components \cup {c},
     instance |-> [entity.instance EXCEPT ![c] = component]]

AttachToEntity(entity, c) == AttachInstance(entity, c, NewComponent(Undefined))

AddPresence(ce, c, id) == [ce EXCEPT ![c] = @ \cup {id}]

(* addComponent(component_class, properties) *)
AddComponentWithOp(w, id, c, properties) ==
    IF ~ComponentRegistered(c, w.components)
    THEN Outcome(w, "Error", FALSE, 0, 0, NoValue)
    ELSE LET entity == AttachInstance(w.entities[id], c, NewComponent(properties))
         IN  Outcome([w EXCEPT !.entities[id] = entity,
                               !.classEntities = AddPresence(@, c, id),
                               !.heap = DispatchComponentAdded(w.queries, @, entity, id)],
                     "none", FALSE, 1, 0, "undefined")

(* addComponent(component_class) *)
AddComponentOp(w, id, c) == AddComponentWithOp(w, id, c, Undefined)

-----------------------------------------------------------------------------
(* Entity.removeComponent *)

DetachFromEntity(entity, c) ==
    [root |-> entity.root \ {c}, components |-> entity.components \ {c},
     instance |-> [entity.instance EXCEPT ![c] = NoValue]]

(* Faulty variant: ecs.js:109 left out, the presence set keeps the entity. *)
RemovePresenceKept(ce, c, id) == ce

RemovePresence(ce, c, id) == [ce EXCEPT ![c] = @ \ {id}]

(* Faulty variant: ecs.js:113 looks at the first name of the query only. *)
QueryUsesFirstName(q, name) ==
    Len(q.component_names) > 0 /\ q.component_names[1] = name

QueryUses(q, name) == name \in Range(q.component_names)

(* The loop of ecs.js:111-116 from position i on; a refresh that throws ends it. *)
RECURSIVE RefreshQueriesUsing(_, _, _, _, _, _, _)
RefreshQueriesUsing(qs, i, name, ents, ce, hp, h) ==
    IF i > Len(qs) THEN [queries |-> qs, heap |-> hp, threw |-> "none"]
    ELSE IF ~QueryUses(qs[i], name)
         THEN RefreshQueriesUsing(qs, i + 1, name, ents, ce, hp, h)
         ELSE LET r == Refresh(qs[i], ents, ce, hp, Live(qs, h))
                  qs2 == [qs EXCEPT ![i] = r.query]
              IN  IF r.threw # "none"
                  THEN [queries |-> qs2, heap |-> r.heap, threw |-> r.threw]
                  ELSE RefreshQueriesUsing(qs2, i + 1, name, ents, ce, r.heap, h)

RemoveComponentOp(w, id, c) ==
    IF c \in w.entities[id].root
    THEN LET ents == [w.entities EXCEPT ![id] = DetachFromEntity(@, c)]
             ce == RemovePresence(w.classEntities, c, id)
             r == RefreshQueriesUsing(w.queries, 1, c, ents, ce, w.heap, w.held)
         IN  Outcome(Collected([w EXCEPT !.entities = ents, !.classEntities = ce,
                                         !.queries = r.queries, !.heap = r.heap]),
                     r.threw, FALSE, 0, 0,
                     IF r.threw = "none" THEN "undefined" ELSE NoValue)
    ELSE Outcome(w, "ReferenceError", FALSE, 0, 0, NoValue)

-----------------------------------------------------------------------------
(* new Query(ecs, logic): Query.constructor *)

ConstructQuery(logic, qs, comps, ents, ce, hp, h) ==
    LET o0 == NewObject(Live(qs, h))
        q0 == [key |-> ToKey(logic),
               logic |-> logic,
               components |-> ResolveComponents(logic, comps),
               component_names |-> ComponentNames(logic),
               entities |-> o0]
    IN  Refresh(q0, ents, ce, [hp EXCEPT ![o0] = {}], Live(qs, h) \cup {o0})

-----------------------------------------------------------------------------
(* ECS.createQuery *)

(* Faulty variant: the lookup of ecs.js:47 and ecs.js:59 never finds the key. *)
QueryNeverFound(logic, qs) == FALSE

QueryExists(logic, qs) == ToKey(logic) \in QueryKeys(qs)

CreateQueryRaw(w, logic) ==
    IF QueryExists(logic, w.queries)
    THEN Outcome(w, "none", TRUE, 0, 0, "false")
    ELSE LET c == ConstructQuery(logic, w.queries, w.components, w.entities,
                                 w.classEntities, w.heap, w.held)
         IN  IF c.threw # "none"
             THEN Outcome([w EXCEPT !.heap = c.heap], c.threw, FALSE, 0, 1, NoValue)
             ELSE LET qs1 == Append(w.queries, c.query)
                      r == Refresh(c.query, w.entities, w.classEntities, c.heap,
                                   Live(qs1, w.held))
                  IN  Outcome([w EXCEPT !.queries = [qs1 EXCEPT ![Len(qs1)] = r.query],
                                        !.heap = r.heap],
                              r.threw, FALSE, 0, 1,
                              IF r.threw = "none" THEN "true" ELSE NoValue)

CreateQueryOp(w, logic) ==
    LET r == CreateQueryRaw(w, logic) IN [r EXCEPT !.w = Collected(@)]

-----------------------------------------------------------------------------
(* ECS.query.  `keep` says what the caller does with the object it gets: keep *)
(* it in a variable of its own, or use it on the spot and drop it.            *)

QueryRaw(w, logic) ==
    IF QueryExists(logic, w.queries)
    THEN Outcome(w, "none", FALSE, 0, 0,
                 {w.queries[QueryIndex(w.queries, ToKey(logic))].entities})
    ELSE LET r == CreateQueryRaw(w, logic)
         IN  IF r.threw # "none" THEN [r EXCEPT !.ret = {}]
             ELSE IF r.ret = "true"
             THEN [r EXCEPT !.ret =
                      {r.w.queries[QueryIndex(r.w.queries, ToKey(logic))].entities}]
             ELSE LET o == NewObject(Live(r.w.queries, r.w.held))
                  IN  Outcome([r.w EXCEPT !.heap[o] = {}], "none", TRUE, 0,
                              r.listeners, {o})

QueryOp(w, logic, keep) ==
    LET r == QueryRaw(w, logic)
        kept == r.threw = "none" /\ keep
        w2 == [r.w EXCEPT !.held = IF kept THEN r.ret ELSE @,
                          !.heldKey = IF kept THEN ToKey(logic) ELSE @]
    IN  [r EXCEPT !.w = Collected(w2),
                  !.ret = IF r.threw = "none" THEN "object" ELSE NoValue]

(* The ids in the object ECS.query(logic) returns in world w. *)
QueryIds(w, logic) ==
    LET r == QueryRaw(w, logic) IN UNION {r.w.heap[o] : o \in r.ret}

-----------------------------------------------------------------------------
(* Actions on the world *)

Becomes(w) ==
    /\ components' = w.components
    /\ classEntities' = w.classEntities
    /\ entities' = w.entities
    /\ queries' = w.queries
    /\ heap' = w.heap
    /\ held' = w.held
    /\ heldKey' = w.heldKey

RegisterComponent(c) ==
    /\ Becomes(RegisterComponentOp(World, c).w)
    /\ UNCHANGED <<systemVars, otherVars>>

NewEntity ==
    /\ Len(entities) < MaxEntities
    /\ Becomes(NewEntityOp(World).w)
    /\ UNCHANGED <<systemVars, otherVars>>

AddComponent(id, c) ==
    /\ id \in DOMAIN entities
    /\ Becomes(AddComponentOp(World, id, c).w)
    /\ UNCHANGED <<systemVars, otherVars>>

RemoveComponent(id, c) ==
    /\ id \in DOMAIN entities
    /\ Becomes(RemoveComponentOp(World, id, c).w)
    /\ UNCHANGED <<systemVars, otherVars>>

CanCreate(logic) == QueryExists(logic, queries) \/ Len(queries) < MaxQueries

CreateQuery(logic) ==
    /\ CanCreate(logic)
    /\ Becomes(CreateQueryOp(World, logic).w)
    /\ UNCHANGED <<systemVars, otherVars>>

Query(logic, keep) ==
    /\ CanCreate(logic)
    /\ Becomes(QueryOp(World, logic, keep).w)
    /\ UNCHANGED <<systemVars, otherVars>>

-----------------------------------------------------------------------------
(* A second world of the same program: `other = new ECS()`.  The component   *)
(* classes are the program's, so both worlds register the same class         *)
(* objects, and the `entities` object of a class is a static property of     *)
(* the class.  Ids are UUIDs: the k-th entity of the second world has an id  *)
(* that no entity of the first world has.                                    *)

OtherId(k) == 0 - k

OtherOutcome(w, o, threw, logged) ==
    [w |-> w, other |-> o, threw |-> threw, logged |-> logged]

OtherRegisterComponentOp(w, o, c) ==
    IF ComponentAlreadyRegistered(c, o.components)
    THEN OtherOutcome(w, o, "none", TRUE)
    ELSE OtherOutcome([w EXCEPT !.classEntities[c] = {}],
                      [o EXCEPT !.components = @ \cup {c}], "none", FALSE)

OtherNewEntityOp(w, o) ==
    OtherOutcome(w, [o EXCEPT !.entities = Append(@, EmptyEntity)],
                 "none", FALSE)

OtherAddComponentOp(w, o, k, c) ==
    IF ~ComponentRegistered(c, o.components)
    THEN OtherOutcome(w, o, "Error", FALSE)
    ELSE OtherOutcome([w EXCEPT !.classEntities = AddPresence(@, c, OtherId(k))],
                      [o EXCEPT !.entities[k] = AttachToEntity(@, c)], "none", FALSE)

OtherRemoveComponentOp(w, o, k, c) ==
    IF c \in o.entities[k].root
    THEN OtherOutcome([w EXCEPT !.classEntities = RemovePresence(@, c, OtherId(k))],
                      [o EXCEPT !.entities[k] = DetachFromEntity(@, c)], "none", FALSE)
    ELSE OtherOutcome(w, o, "ReferenceError", FALSE)

OtherBecomes(r) ==
    /\ Becomes(r.w)
    /\ other' = r.other
    /\ UNCHANGED systemVars

OtherRegisterComponent(c) == OtherBecomes(OtherRegisterComponentOp(World, other, c))

OtherNewEntity ==
    /\ Len(other.entities) < MaxOtherEntities
    /\ OtherBecomes(OtherNewEntityOp(World, other))

OtherAddComponent(k, c) ==
    /\ k \in DOMAIN other.entities
    /\ OtherBecomes(OtherAddComponentOp(World, other, k, c))

OtherRemoveComponent(k, c) ==
    /\ k \in DOMAIN other.entities
    /\ OtherBecomes(OtherRemoveComponentOp(World, other, k, c))

-----------------------------------------------------------------------------
(* ECS.registerSystem *)

SystemNames(sys) == {sys[i].name : i \in DOMAIN sys}

(* Faulty variant: the duplicate check of ecs.js:13 never finds the name. *)
SystemNeverFound(s, sys) == FALSE

SystemAlreadyRegistered(s, sys) == s \in SystemNames(sys)

(* What system.onRegistration() finds when it runs: whether the system is in   *)
(* ECS.systems by then, and whether a tick has already updated it.             *)
OnRegistration(s, sys, upd) == [stored |-> s \in SystemNames(sys), ticked |-> s \in upd]

StoreAndNotify(s, instance, sys, hk, upd) ==
    LET stored == Append(sys, [name |-> s, instance |-> instance])
    IN  [systems |-> stored,
         hooks |-> [hk EXCEPT ![s] = Append(@, OnRegistration(s, stored, upd))]]

RegisterSystemOp(s, instance, sys, hk, upd) ==
    IF SystemAlreadyRegistered(s, sys)
    THEN [systems |-> sys, hooks |-> hk, logged |-> TRUE]
    ELSE LET r == StoreAndNotify(s, instance, sys, hk, upd)
         IN  [systems |-> r.systems, hooks |-> r.hooks, logged |-> FALSE]

RegisterSystem(s) ==
    /\ constructed[s] < MaxConstructed
    /\ constructed' = [constructed EXCEPT ![s] = @ + 1]
    /\ LET r == RegisterSystemOp(s, constructed[s] + 1, systems, hooks, updated)
       IN  /\ systems' = r.systems
           /\ hooks' = r.hooks
    /\ UNCHANGED updated
    /\ UNCHANGED <<worldVars, otherVars>>

-----------------------------------------------------------------------------
(* ECS.update: every registered system's update(delta), in insertion order *)

UpdateOp(sys, upd, delta) == upd \cup SystemNames(sys)

Update(delta) ==
    /\ updated' = UpdateOp(systems, updated, delta)
    /\ UNCHANGED <<systems, constructed, hooks>>
    /\ UNCHANGED <<worldVars, otherVars>>

-----------------------------------------------------------------------------
(* ECS.update with systems that override update(delta).  The program's two    *)
(* system classes: S1.update toggles component A on the first entity of the   *)
(* world (addComponent if the entity has no property A, removeComponent if it *)
(* has); S2.update calls this.ecs.query(["A"]) and looks at the set it gets.  *)
(* An exception of an update leaves forEach and ECS.update.                   *)

MoverClass == "S1"
WatcherClass == "S2"
MovedComponent == "A"
WatchList == <<"A">>

SystemUpdate(s, w, delta) ==
    IF s = MoverClass
    THEN IF Len(w.entities) = 0
         THEN Outcome(w, "none", FALSE, 0, 0, "undefined")
         ELSE IF MovedComponent \in w.entities[1].root
              THEN RemoveComponentOp(w, 1, MovedComponent)
              ELSE AddComponentOp(w, 1, MovedComponent)
    ELSE QueryOp(w, WatchList, FALSE)

(* One call system.update(delta): the world it found, the world it left, the  *)
(* exception that left it, and the ids in the set its query returned.  The    *)
(* outcome of the update is bound as a value.                                 *)
Invocation(s, w, delta) ==
    CHOOSE call \in
        { [system |-> s, delta |-> delta, before |-> w, w |-> r.w, threw |-> r.threw,
           saw |-> IF s = WatcherClass /\ r.threw = "none"
                   THEN QueryIds(w, WatchList) ELSE {}] :
            r \in {SystemUpdate(s, w, delta)} } : TRUE

(* Faulty variant: forEach walks the keys from the last to the first. *)
SystemEntriesReversed(sys) == [i \in DOMAIN sys |-> sys[Len(sys) + 1 - i].name]

(* Object.entries(this.systems): the keys at the start, in insertion order. *)
SystemEntries(sys) == [i \in DOMAIN sys |-> sys[i].name]

(* Faulty variant: every system works on a copy of the world made when the    *)
(* tick started. *)
WorldAtTickStart(start, current) == start

(* The world a system finds through this.ecs: the one world there is. *)
WorldSeenBy(start, current) == current

(* The calls of forEach from the i-th entry on.  The one call of the i-th    *)
(* system is bound as a value, and the rest of the loop goes on from it.     *)
RECURSIVE UpdateFrom(_, _, _, _, _, _)
UpdateFrom(start, w, entries, i, delta, log) ==
    IF i > Len(entries) THEN [w |-> w, log |-> log, threw |-> "none"]
    ELSE CHOOSE result \in
            { IF call.threw # "none"
              THEN [w |-> call.w, log |-> Append(log, call), threw |-> call.threw]
              ELSE UpdateFrom(start, call.w, entries, i + 1, delta, Append(log, call)) :
                call \in {Invocation(entries[i], WorldSeenBy(start, w), delta)} } : TRUE

TickOp(w, sys, delta) == UpdateFrom(w, w, SystemEntries(sys), 1, delta, <<>>)

Tick(delta) ==
    \E r \in {TickOp(World, systems, delta)} :
        /\ Becomes(r.w)
        /\ updated' = updated \cup {r.log[k].system : k \in DOMAIN r.log}
        /\ UNCHANGED <<systems, constructed, hooks>>
        /\ UNCHANGED otherVars

-----------------------------------------------------------------------------
(* Specifications *)

(* The world: component classes, entities, attach / detach and queries. *)
Next ==
    \/ \E c \in ComponentClasses : RegisterComponent(c)
    \/ NewEntity
    \/ \E id \in 1..MaxEntities, c \in ComponentClasses : AddComponent(id, c)
    \/ \E id \in 1..MaxEntities, c \in ComponentClasses : RemoveComponent(id, c)
    \/ \E logic \in LogicLists : CreateQuery(logic)
    \/ \E logic \in LogicLists : Query(logic, FALSE)

Spec == Init /\ [][Next]_vars

(* The same world with a caller that keeps the set ECS.query returned. *)
NextLive ==
    \/ \E c \in ComponentClasses : RegisterComponent(c)
    \/ NewEntity
    \/ \E id \in 1..MaxEntities, c \in ComponentClasses : AddComponent(id, c)
    \/ \E id \in 1..MaxEntities, c \in ComponentClasses : RemoveComponent(id, c)
    \/ \E logic \in LiveLogicLists : Query(logic, TRUE)

SpecLive == Init /\ [][NextLive]_vars

(* The world with queries for a list of one name and a list with a negated   *)
(* name only. *)
NextNegation ==
    \/ \E c \in ComponentClasses : RegisterComponent(c)
    \/ NewEntity
    \/ \E id \in 1..MaxEntities, c \in ComponentClasses : AddComponent(id, c)
    \/ \E id \in 1..MaxEntities, c \in ComponentClasses : RemoveComponent(id, c)
    \/ \E logic \in LiveLogicLists : CreateQuery(logic)
    \/ \E logic \in LiveLogicLists : Query(logic, FALSE)

SpecNegation == Init /\ [][NextNegation]_vars

(* Two worlds of one program side by side. *)
NextWorlds ==
    \/ \E c \in ComponentClasses : RegisterComponent(c)
    \/ NewEntity
    \/ \E id \in 1..MaxEntities, c \in ComponentClasses : AddComponent(id, c)
    \/ \E id \in 1..MaxEntities, c \in ComponentClasses : RemoveComponent(id, c)
    \/ \E logic \in LiveLogicLists : Query(logic, FALSE)
    \/ \E c \in ComponentClasses : OtherRegisterComponent(c)
    \/ OtherNewEntity
    \/ \E k \in 1..MaxOtherEntities, c \in ComponentClasses : OtherAddComponent(k, c)
    \/ \E k \in 1..MaxOtherEntities, c \in ComponentClasses : OtherRemoveComponent(k, c)

SpecWorlds == Init /\ [][NextWorlds]_vars

(* Systems registered and ticked in a world whose entities change meanwhile. *)
NextSystems ==
    \/ \E s \in SystemClasses : RegisterSystem(s)
    \/ \E delta \in Deltas : Update(delta)
    \/ \E c \in ComponentClasses : RegisterComponent(c)
    \/ NewEntity
    \/ \E id \in 1..MaxEntities, c \in ComponentClasses : AddComponent(id, c)
    \/ \E id \in 1..MaxEntities, c \in ComponentClasses : RemoveComponent(id, c)

SpecSystems == Init /\ [][NextSystems]_vars

(* The systems S1 and S2 with their own update, ticked while the world is    *)
(* set up and changed from outside as well. *)
NextTick ==
    \/ \E s \in SystemClasses : RegisterSystem(s)
    \/ \E delta \in Deltas : Tick(delta)
    \/ \E c \in ComponentClasses : RegisterComponent(c)
    \/ NewEntity
    \/ \E id \in 1..MaxEntities, c \in ComponentClasses : AddComponent(id, c)
    \/ \E id \in 1..MaxEntities, c \in ComponentClasses : RemoveComponent(id, c)

SpecTick == Init /\ [][NextTick]_vars

-----------------------------------------------------------------------------
(* Properties *)

Holders(ents, c) == {id \in DOMAIN ents : c \in ents[id].components}

HoldsAll(ents, id, names) == \A k \in DOMAIN names : names[k] \in ents[id].components

Matching(ents, names) == {id \in DOMAIN ents : HoldsAll(ents, id, names)}

(* C1 (invariant I1): in every reachable state of the world, the presence set *)
(* of each registered component class is exactly the set of ids of the        *)
(* entities that hold a component of that class.                              *)
C1_PresenceIsHolders ==
    \A c \in components : classEntities[c] = Holders(entities, c)

(* C1's case: a class held by two entities, one of which detaches it. *)
C1_Witness ==
    \E id \in DOMAIN entities, c \in components :
        /\ c \in entities[id].root
        /\ Cardinality(classEntities[c]) >= 2
        /\ RemoveComponentOp(World, id, c).w.classEntities[c] = classEntities[c] \ {id}

(* C2 (invariant I2), as claimed: in every reachable state, the cache of      *)
(* every query of the world holds exactly the ids of the entities that hold   *)
(* a component of every type of the query's list.                             *)
C2_CacheIsMatching ==
    \A i \in DOMAIN queries :
        heap[queries[i].entities] = Matching(entities, queries[i].component_names)

(* C3, as claimed: the set a caller got from ECS.query and kept holds the     *)
(* same ids as the current cache of the query for that logic list, whatever   *)
(* was attached or detached since.                                            *)
C3_HeldSetIsLive ==
    (held # {} /\ heldKey \in QueryKeys(queries)) =>
        \A o \in held :
            heap[o] = heap[queries[QueryIndex(queries, heldKey)].entities]

(* C4: in every reachable state, addComponent of a class that is not          *)
(* registered throws an Error, dispatches no component_added event and        *)
(* leaves the world (entity, presence sets, queries and their caches) as it   *)
(* was.                                                                       *)
C4_AttachUnregisteredFails ==
    \A id \in DOMAIN entities, c \in ComponentClasses \ components :
        LET r == AddComponentOp(World, id, c)
        IN  r.threw = "Error" /\ r.events = 0 /\ r.w = World

(* C4's case: the entity holds a component, a query caches it, and the        *)
(* attach of an unregistered class is refused.                                *)
C4_Witness ==
    \E id \in DOMAIN entities, c \in ComponentClasses \ components :
        /\ entities[id].components # {}
        /\ \E i \in DOMAIN queries : id \in heap[queries[i].entities]
        /\ AddComponentOp(World, id, c).threw = "Error"

(* C5, as claimed: in every reachable state, removeComponent of a class the   *)
(* entity does not hold returns without an exception and leaves the world     *)
(* as it was.                                                                 *)
C5_DetachAbsentReturns ==
    \A id \in DOMAIN entities :
        \A c \in ComponentClasses \ entities[id].root :
            LET r == RemoveComponentOp(World, id, c)
            IN  r.threw = "none" /\ r.w = World

(* C6: in every reachable state, when removeComponent(T) on an entity E that  *)
(* holds T returns, then for every query whose list includes T the set        *)
(* ECS.query returns right afterwards does not contain E and contains every   *)
(* other entity that holds all the types of the list.                         *)
C6_DetachRebuildsQueries ==
    \A id \in DOMAIN entities :
        \A c \in entities[id].root :
            LET r == RemoveComponentOp(World, id, c)
            IN  r.threw = "none" =>
                  \A i \in DOMAIN r.w.queries :
                      LET q == r.w.queries[i]
                          ids == QueryIds(r.w, q.logic)
                      IN  c \in Range(q.component_names) =>
                            /\ id \notin ids
                            /\ \A rest \in DOMAIN r.w.entities \ {id} :
                                  HoldsAll(r.w.entities, rest, q.component_names)
                                      => rest \in ids

(* C6's case: E and another entity are both in the cache of a query that      *)
(* uses T; the detach returns, E is gone and the rest entity is still there. *)
C6_Witness ==
    \E id \in DOMAIN entities :
        \E c \in entities[id].root :
            LET r == RemoveComponentOp(World, id, c)
            IN  /\ r.threw = "none"
                /\ \E i \in DOMAIN queries :
                      /\ c \in Range(queries[i].component_names)
                      /\ id \in heap[queries[i].entities]
                      /\ \E rest \in DOMAIN entities \ {id} :
                            rest \in QueryIds(r.w, queries[i].logic)
                      /\ id \notin QueryIds(r.w, queries[i].logic)

(* C7, as claimed: in every reachable state and for every existing query,     *)
(* when addComponent gives an entity F the last type of the query's list it   *)
(* was missing, F's id is in the query's cache when addComponent returns.     *)
C7_AttachCompletesMatch ==
    \A id \in DOMAIN entities, c \in components :
        LET r == AddComponentOp(World, id, c)
        IN  \A i \in DOMAIN queries :
                ( /\ c \notin entities[id].components
                  /\ c \in Range(queries[i].component_names)
                  /\ HoldsAll(r.w.entities, id, queries[i].component_names) )
                => id \in r.w.heap[r.w.queries[i].entities]

(* C8: in every reachable state, registerComponent of a name that is already  *)
(* registered is rejected (logged) and leaves the world as it was: the        *)
(* component table, the presence set of the class (not reset) and every       *)
(* query cache.                                                               *)
C8_DuplicateComponentRejected ==
    \A c \in components :
        LET r == RegisterComponentOp(World, c)
        IN  r.threw = "none" /\ r.logged /\ r.w = World

(* C8's case: entities hold the class that is registered a second time. *)
C8_Witness ==
    \E c \in components :
        /\ classEntities[c] # {}
        /\ \E i \in DOMAIN queries : heap[queries[i].entities] # {}
        /\ RegisterComponentOp(World, c).logged

(* C9: for every system class, onRegistration has run once if the class is    *)
(* registered and never otherwise; it ran with the system already stored in   *)
(* ECS.systems and before any tick updated the system; the stored instance is *)
(* the first one constructed; and a further registerSystem of a registered    *)
(* class changes neither the system table nor the hook's run count.           *)
C9_HookRunsOnce ==
    \A s \in SystemClasses :
        /\ Len(hooks[s]) = (IF s \in SystemNames(systems) THEN 1 ELSE 0)
        /\ constructed[s] > 0 => s \in SystemNames(systems)
        /\ \A k \in DOMAIN hooks[s] : hooks[s][k].stored /\ ~hooks[s][k].ticked
        /\ s \in updated => Len(hooks[s]) = 1
        /\ \A i \in DOMAIN systems : systems[i].name = s => systems[i].instance = 1
        /\ s \in SystemNames(systems) =>
              LET r == RegisterSystemOp(s, constructed[s] + 1, systems, hooks, updated)
              IN  r.logged /\ r.systems = systems /\ r.hooks = hooks

(* C9's case: a class registered twice and updated by a tick. *)
C9_Witness ==
    \E s \in SystemClasses :
        constructed[s] >= 2 /\ s \in updated /\ Len(hooks[s]) = 1

(* C10, as claimed: in every reachable state, ECS.query(L) returns to the     *)
(* caller without an exception, for every logic list L.                       *)
C10_QueryNeverThrows ==
    \A logic \in LogicLists :
        CanCreate(logic) => QueryOp(World, logic, FALSE).threw = "none"

(* C11: the query table holds at most one query per logic key.  In every      *)
(* reachable state and for every logic list whose query exists, ECS.query     *)
(* returns the existing query's cache object, constructs no Query and         *)
(* subscribes no listener, and ECS.createQuery returns false and leaves the   *)
(* query table and every cache as they were.                                  *)
C11_OneQueryPerKey ==
    /\ \A i, j \in DOMAIN queries : queries[i].key = queries[j].key => i = j
    /\ \A logic \in LogicLists :
          QueryExists(logic, queries) =>
              LET got == QueryRaw(World, logic)
                  made == CreateQueryOp(World, logic)
                  existing == queries[QueryIndex(queries, ToKey(logic))]
              IN  /\ got.threw = "none" /\ got.listeners = 0
                  /\ got.ret = {existing.entities}
                  /\ got.w = World
                  /\ made.threw = "none" /\ made.listeners = 0
                  /\ made.ret = "false" /\ made.logged
                  /\ made.w = World

(* C11's case: two queries exist, one of them caches an entity, and both      *)
(* ECS.query and ECS.createQuery are called again with its list.              *)
C11_Witness ==
    \E logic \in LogicLists :
        /\ QueryExists(logic, queries)
        /\ Len(queries) >= 2
        /\ QueryIds(World, logic) # {}
        /\ CreateQueryOp(World, logic).ret = "false"

(* The ids in the cache of the i-th query of world w. *)
CacheOf(w, i) == w.heap[w.queries[i].entities]

(* C12, as claimed: in every reachable state, for every entity E and every    *)
(* registered class T, addComponent(T); removeComponent(T); addComponent(T)   *)
(* on E leaves E's held types, every presence set and the cache of every      *)
(* existing query whose list includes T as one addComponent(T) from the same  *)
(* state leaves them.                                                         *)
C12_RoundTrip ==
    \A id \in DOMAIN entities, c \in components :
        LET once == AddComponentOp(World, id, c).w
            detached == RemoveComponentOp(once, id, c).w
            again == AddComponentOp(detached, id, c).w
        IN  /\ again.entities[id] = once.entities[id]
            /\ again.classEntities = once.classEntities
            /\ \A i \in DOMAIN queries :
                  QueryUses(queries[i], c) => CacheOf(again, i) = CacheOf(once, i)

(* C15: in every reachable state without a query for the empty list,          *)
(* ECS.query([]) and ECS.createQuery([]) return normally and the cache of     *)
(* the new query holds the id of every entity that exists at that moment.     *)
C15_EmptyListMatchesAll ==
    ~QueryExists(<<>>, queries) =>
        LET got == QueryRaw(World, <<>>)
            made == CreateQueryOp(World, <<>>)
        IN  /\ got.threw = "none"
            /\ QueryIds(World, <<>>) = DOMAIN entities
            /\ made.threw = "none" /\ made.ret = "true"
            /\ CacheOf(made.w, Len(made.w.queries)) = DOMAIN entities

(* C15's case: two entities, one with a component and one without, and no     *)
(* query for the empty list yet; the new cache holds both.                    *)
C15_Witness ==
    /\ ~QueryExists(<<>>, queries)
    /\ Len(entities) >= 2
    /\ \E id \in DOMAIN entities : entities[id].components = {}
    /\ \E id \in DOMAIN entities : entities[id].components # {}
    /\ QueryIds(World, <<>>) = DOMAIN entities

(* The logic lists with a negated token that C16 ranges over, and the list    *)
(* with the plain name in the token's place.                                  *)
NegatedLists == { <<"!A">>, <<"!A", "B">>, <<"A", "!A">>, <<"!B", "!A">> }

PlainToken(token) ==
    IF token = "!A" THEN "A" ELSE IF token = "!B" THEN "B" ELSE token

Plain(logic) == [i \in DOMAIN logic |-> PlainToken(logic[i])]

(* World w with the query for `logic` turned into the query for Plain(logic). *)
InPlace(w, logic) ==
    [w EXCEPT !.queries =
        [i \in DOMAIN @ |->
            IF @[i].logic = logic
            THEN [@[i] EXCEPT !.logic = Plain(logic), !.key = ToKey(Plain(logic))]
            ELSE @[i]]]

(* Every call on an entity has the same outcome in worlds wn and wp. *)
SameSteps(wn, wp, logic) ==
    /\ InPlace(NewEntityOp(wn).w, logic) = NewEntityOp(wp).w
    /\ \A id \in DOMAIN wn.entities, c \in ComponentClasses :
          LET an == AddComponentOp(wn, id, c)
              ap == AddComponentOp(wp, id, c)
              rn == RemoveComponentOp(wn, id, c)
              rp == RemoveComponentOp(wp, id, c)
          IN  /\ an.threw = ap.threw /\ InPlace(an.w, logic) = ap.w
              /\ rn.threw = rp.threw /\ InPlace(rn.w, logic) = rp.w

(* C16: a "!" in front of a name is inert.  In every reachable state and for  *)
(* every list L with a negated token: ECS.createQuery(L) ends as              *)
(* createQuery of the list with the plain names does and builds the same      *)
(* query but for its key, with a cache that, when the call returns, holds     *)
(* exactly the entities holding every stripped name; and from two worlds      *)
(* that differ only in L against the plain list, every entity creation,       *)
(* addComponent and removeComponent ends the same way and leaves worlds that  *)
(* again differ only in that, with the same caches.                           *)
C16_NegationInert ==
    \A logic \in NegatedLists :
        /\ (~QueryExists(logic, queries) /\ ~QueryExists(Plain(logic), queries)) =>
              LET n == CreateQueryOp(World, logic)
                  p == CreateQueryOp(World, Plain(logic))
              IN  /\ n.threw = p.threw /\ n.ret = p.ret
                  /\ InPlace(n.w, logic) = p.w
                  /\ n.threw = "none" =>
                        /\ CacheOf(n.w, Len(n.w.queries))
                              = Matching(entities, Plain(logic))
                        /\ SameSteps(n.w, p.w, logic)
        /\ (QueryExists(logic, queries) /\ ~QueryExists(Plain(logic), queries)) =>
              SameSteps(World, InPlace(World, logic), logic)

(* C16's case: the query for ["!A","B"] exists and caches an entity that      *)
(* holds both A and B, next to an entity that holds B only.                   *)
C16_Witness ==
    /\ QueryExists(<<"!A", "B">>, queries)
    /\ \E id \in DOMAIN entities :
          /\ entities[id].components = {"A", "B"}
          /\ id \in QueryIds(World, <<"!A", "B">>)
    /\ \E id \in DOMAIN entities : entities[id].components = {"B"}

(* C17, as claimed: in every reachable state and for every existing query,    *)
(* after an addComponent on an entity E the incremental path inserts E if and *)
(* only if a rebuild of the query at that moment would include E, and         *)
(* Query.refresh returns and leaves the ids in the query's cache as they      *)
(* were.                                                                      *)
C17_PathsAgree ==
    \A i \in DOMAIN queries :
        /\ \A id \in DOMAIN entities, c \in components :
              LET after == AddComponentOp(World, id, c).w
              IN  ComponentAddedToEntity(queries[i], after.entities[id])
                    <=> id \in RefreshMatches(after.queries[i], after.entities,
                                              after.classEntities)
        /\ LET r == Refresh(queries[i], entities, classEntities, heap,
                            Live(queries, held))
           IN  r.threw = "none" /\ r.heap[r.query.entities] = CacheOf(World, i)

(* A query that was built before every type of its list was registered. *)
BuiltEarly(q) == Undefined \in Range(q.components)

(* C19, as claimed: in every reachable state and for every query built        *)
(* before a type of its list was registered, once every type of the list is   *)
(* registered every addComponent of a registered class and every              *)
(* removeComponent of a held class returns without an exception, and the      *)
(* query's cache holds exactly the entities holding every type of the list.   *)
C19_EarlyQueryBehaves ==
    \A i \in DOMAIN queries :
        (BuiltEarly(queries[i]) /\ Range(queries[i].component_names) \subseteq components)
        => /\ CacheOf(World, i) = Matching(entities, queries[i].component_names)
           /\ \A id \in DOMAIN entities :
                 /\ \A c \in components : AddComponentOp(World, id, c).threw = "none"
                 /\ \A c \in entities[id].root :
                       RemoveComponentOp(World, id, c).threw = "none"

(* C18, as claimed: with two worlds, in every reachable state the second      *)
(* world's registerComponent of a class the first world has registered, and   *)
(* every addComponent and removeComponent on an entity of the second world,   *)
(* leave the first world as it was (its component table, its presence sets,   *)
(* its query caches), and the presence set of every class registered in the   *)
(* first world is the set of the first world's entities that hold the class.  *)
C18_WorldsIndependent ==
    /\ \A c \in components : OtherRegisterComponentOp(World, other, c).w = World
    /\ \A k \in DOMAIN other.entities, c \in ComponentClasses :
          /\ OtherAddComponentOp(World, other, k, c).w = World
          /\ OtherRemoveComponentOp(World, other, k, c).w = World
    /\ \A c \in components : classEntities[c] = Holders(entities, c)

(* The properties an addComponent call is given: none, or an object. *)
PropertyValues == {Undefined, "{x:1}"}

(* C20, as claimed: in every reachable state, addComponent(T, properties) on  *)
(* an entity E that holds T returns, dispatches one component_added event,    *)
(* leaves E with the new instance as its component of type T and with the     *)
(* same types and the same instances of the other types, and leaves every     *)
(* presence set, the query table and the ids in every query cache as they     *)
(* were.                                                                      *)
C20_ReattachReplaces ==
    \A id \in DOMAIN entities :
        \A c \in entities[id].components, p \in PropertyValues :
            LET r == AddComponentWithOp(World, id, c, p)
                e == r.w.entities[id]
            IN  /\ r.threw = "none" /\ r.events = 1
                /\ p # Undefined => e.instance[c] = p
                /\ p = Undefined => e.instance[c] = "{}"
                /\ e.components = entities[id].components
                /\ e.root = entities[id].root
                /\ \A d \in ComponentClasses \ {c} :
                      e.instance[d] = entities[id].instance[d]
                /\ \A x \in DOMAIN entities \ {id} : r.w.entities[x] = entities[x]
                /\ r.w.classEntities = classEntities
                /\ r.w.components = components
                /\ r.w.queries = queries
                /\ \A i \in DOMAIN queries : CacheOf(r.w, i) = CacheOf(World, i)

(* C13: in every reachable state and for every delta, the calls ECS.update    *)
(* makes are update calls on the systems registered at that moment, in the    *)
(* order of their registration, each at most once and each with the delta     *)
(* ECS.update was given; when no update throws, every registered system is    *)
(* called, and when one throws the calls end with it.                         *)
C13_TickUpdatesInOrder ==
    \A delta \in Deltas :
        LET r == TickOp(World, systems, delta)
        IN  /\ Len(r.log) <= Len(systems)
            /\ \A k \in DOMAIN r.log :
                  /\ r.log[k].system = systems[k].name
                  /\ r.log[k].delta = delta
                  /\ r.log[k].threw # "none" => k = Len(r.log)
            /\ r.threw = "none" <=> \A k \in DOMAIN r.log : r.log[k].threw = "none"
            /\ r.threw = "none" => Len(r.log) = Len(systems)

(* C13's case: S2 was registered before S1, an entity exists, and the tick    *)
(* returns after S1's update changed the world.                               *)
C13_Witness ==
    /\ Len(systems) = 2 /\ systems[1].name = WatcherClass
    /\ \E delta \in Deltas :
          LET r == TickOp(World, systems, delta)
          IN  /\ r.threw = "none"
              /\ Len(r.log) = 2
              /\ r.log[2].w.entities # r.log[2].before.entities

(* C14: in every reachable state, when S1 is registered before S2 and, in a   *)
(* tick, S1's update attached or detached A on an entity, the set that        *)
(* ECS.query returns to S2's update later in that tick is the query's cache   *)
(* as it is after S1's change: it holds the same ids as ECS.query returns in  *)
(* the world S1's update left, and it holds the entity exactly if the entity  *)
(* holds A after the change.                                                  *)
C14_NoSnapshotIsolation ==
    \A delta \in Deltas :
        LET r == TickOp(World, systems, delta)
        IN  \A i, j \in DOMAIN r.log :
                ( /\ i < j
                  /\ r.log[i].system = MoverClass /\ r.log[i].threw = "none"
                  /\ r.log[i].w.entities # r.log[i].before.entities
                  /\ r.log[j].system = WatcherClass /\ r.log[j].threw = "none" )
                => /\ r.log[j].saw = QueryIds(r.log[i].w, WatchList)
                   /\ 1 \in r.log[j].saw
                         <=> MovedComponent \in r.log[i].w.entities[1].components

(* C14's case: the query exists and caches two entities; S1's update detaches *)
(* A from the first and S2's query in the same tick no longer returns it,     *)
(* while the cache at the start of the tick held it.                          *)
C14_Witness ==
    /\ Len(systems) = 2 /\ systems[1].name = MoverClass
    /\ QueryExists(WatchList, queries)
    /\ QueryIds(World, WatchList) = {1, 2}
    /\ \E delta \in Deltas :
          LET r == TickOp(World, systems, delta)
          IN  /\ r.threw = "none"
              /\ r.log[2].saw = {2}

=============================================================================
